---- MODULE Spec2Model ----
(***************************************************************************)
(* A model of smart_pointers.h: SharedPtr<T>, WeakPtr<T>, the two control  *)
(* blocks (RegularControlBlock, MakeSharedControlBlock) and                *)
(* EnableSharedFromThis<T>, used from one thread.                          *)
(*                                                                         *)
(* One run fixes the owned type T: esft says whether T derives from        *)
(* EnableSharedFromThis<T> (the `if constexpr` of line 263).  Objects and  *)
(* control blocks carry the same ids: block b owns object b, in a separate *)
(* allocation (RegularControlBlock, the handle's object pointer is b) or   *)
(* embedded (MakeSharedControlBlock, the handle's object pointer is null). *)
(* The calling code holds up to NumShared strong and NumWeak weak handles.  *)
(* A handler is one action; the reads and calls that touch a control block *)
(* after deallocate_cb are recorded, and the value such a read returns is  *)
(* a nondeterministic input of the action.                                 *)
(*                                                                         *)
(* ThreadSpec is a second specification: lock() and ~SharedPtr() on the    *)
(* same block run on two threads with no synchronisation, one step per     *)
(* read or write of a counter (thr holds the threads' positions).          *)
(***************************************************************************)
EXTENDS Integers, FiniteSets, TLC

NumBlocks == 2
NumShared == 2
NumWeak == 2

Blocks == 1..NumBlocks
nullptr == 0

VARIABLES esft, heap, sp, wp, last, thr

vars == <<esft, heap, sp, wp, last, thr>>

(* The (object, cb) pair of a handle: lines 273-274 and 426-427. *)
Empty == [object |-> nullptr, cb |-> nullptr]

(* The pairs a handle can hold: empty, a separately allocated object with  *)
(* its block, or a null object pointer with a block that embeds the object *)
Pairs ==
  {Empty} \cup {[object |-> b, cb |-> b] : b \in Blocks}
          \cup {[object |-> nullptr, cb |-> b] : b \in Blocks}

(* The live handles of the calling code, as a bag: the number of live      *)
(* handles that hold each pair.  Handles have no other state.              *)
NoHandles == [p \in Pairs |-> 0]

Add(bag, p) == [bag EXCEPT ![p] = @ + 1]

Del(bag, p) == [bag EXCEPT ![p] = @ - 1]

RECURSIVE SumOver(_, _)
SumOver(bag, S) ==
  IF S = {} THEN 0
  ELSE LET p == CHOOSE q \in S : TRUE IN bag[p] + SumOver(bag, S \ {p})

Size(bag) == SumOver(bag, Pairs)

(* The number of live handles of a bag whose block pointer is b. *)
HandlesOn(bag, b) == SumOver(bag, {p \in Pairs : p.cb = b})

(* How often a call is counted: twice is already once too many. *)
Bump(n) == IF n < 2 THEN n + 1 ELSE n

(* Nondeterministic inputs of a handler: what a read of weak_cnt in freed  *)
(* storage compares to (zero or not), and whether ~T() calls               *)
(* shared_from_this().                                                     *)
Choices == [uafZero : BOOLEAN, dtorCalls : BOOLEAN]

InitHeap ==
  [ block |-> [b \in Blocks |-> "unallocated"],
    kind |-> [b \in Blocks |-> "none"],
    shared_cnt |-> [b \in Blocks |-> 0],
    weak_cnt |-> [b \in Blocks |-> 0],
    object |-> [b \in Blocks |-> "none"],
    wptr |-> [b \in Blocks |-> Empty],
    destroy_calls |-> [b \in Blocks |-> 0],
    dealloc_calls |-> [b \in Blocks |-> 0],
    dealloc_counts |-> [b \in Blocks |-> <<0, 0>>],
    allocs |-> [b \in Blocks |-> 0],
    uaf |-> [b \in Blocks |-> FALSE],
    dtor_sft |-> "none" ]

(* Every dereference of a control-block pointer goes through Touch: it     *)
(* records an access to a block whose storage was already released.        *)
Touch(h, b) == IF h.block[b] = "freed" THEN [h EXCEPT !.uaf[b] = TRUE] ELSE h

(* BaseControlBlock(sc, wc) placed in freshly allocated storage: one call   *)
(* of allocate (line 105, line 306) or of operator new (line 291), counted  *)
(* in allocs with the allocation of the object the block is for.           *)
NewBlock(h, b, k, sc, wc) ==
  [h EXCEPT !.block[b] = "live", !.kind[b] = k,
            !.shared_cnt[b] = sc, !.weak_cnt[b] = wc,
            !.allocs[b] = @ + 1]

(* deallocate_cb of either block: the block's storage goes back to the     *)
(* allocator.  dealloc_counts keeps the counts the first call saw.         *)
deallocate_cb(h, b) ==
  LET h1 == Touch(h, b)
  IN [h1 EXCEPT !.block[b] = "freed",
                !.dealloc_calls[b] = Bump(@),
                !.dealloc_counts[b] =
                   IF h.dealloc_calls[b] = 0
                   THEN <<h.shared_cnt[b], h.weak_cnt[b]>> ELSE @]

(* A faulty WeakPtr::clear: the count is lowered and the block is never    *)
(* released.                                                               *)
WeakPtr_clear_no_deallocate(h, w) ==
  IF w.cb = nullptr THEN h
  ELSE [Touch(h, w.cb) EXCEPT !.weak_cnt[w.cb] = @ - 1]

(* WeakPtr::clear *)
WeakPtr_clear(h, w) ==
  IF w.cb = nullptr THEN h
  ELSE LET b == w.cb
           h1 == [Touch(h, b) EXCEPT !.weak_cnt[b] = @ - 1]
       IN IF h1.shared_cnt[b] = 0 /\ h1.weak_cnt[b] = 0
          THEN deallocate_cb(h1, b)
          ELSE h1

(* A faulty weak copy constructor: it raises shared_cnt, not weak_cnt. *)
WeakPtr_copy_raises_shared(h, src) ==
  IF src.cb # nullptr
  THEN [Touch(h, src.cb) EXCEPT !.shared_cnt[src.cb] = @ + 1]
  ELSE h

(* A faulty weak copy constructor: the pair is copied and weak_cnt is not  *)
(* raised.                                                                 *)
WeakPtr_copy_no_increment(h, src) == h

(* WeakPtr(const SharedPtr&) and WeakPtr(const WeakPtr&): the heap after   *)
(* the constructor; the new handle holds src's pair.                       *)
WeakPtr_copy(h, src) ==
  IF src.cb # nullptr
  THEN [Touch(h, src.cb) EXCEPT !.weak_cnt[src.cb] = @ + 1]
  ELSE h

(* A faulty WeakPtr::use_count: it returns the block's weak_cnt. *)
WeakPtr_use_count_of_weak(h, w) ==
  IF w.cb = nullptr THEN 0 ELSE h.weak_cnt[w.cb]

(* WeakPtr::use_count *)
WeakPtr_use_count(h, w) == IF w.cb = nullptr THEN 0 ELSE h.shared_cnt[w.cb]

(* A faulty expired(): only the null block counts as expired. *)
expired_null_only(h, w) == w.cb = nullptr

(* WeakPtr::expired *)
expired(h, w) == WeakPtr_use_count(h, w) = 0

(* A faulty SharedPtr(WeakPtr<T>): shared_cnt is not raised. *)
SharedPtr_from_weak_no_increment(h, w) ==
  [heap |-> WeakPtr_clear(WeakPtr_copy(h, w), w), res |-> w]

(* SharedPtr(WeakPtr<T> wptr): the parameter is a copy of the weak handle, *)
(* destroyed when the constructor returns.                                 *)
SharedPtr_from_weak(h, w) ==
  LET h1 == WeakPtr_copy(h, w)
      h2 == IF w.cb # nullptr
            THEN [Touch(h1, w.cb) EXCEPT !.shared_cnt[w.cb] = @ + 1]
            ELSE h1
  IN [heap |-> WeakPtr_clear(h2, w), res |-> w]

(* A faulty lock(): the strong handle is made without the expiry test. *)
lock_unchecked(h, w) == SharedPtr_from_weak(h, w)

(* WeakPtr::lock: the heap after the call and the pair it returns. *)
lock(h, w) ==
  IF expired(IF w.cb = nullptr THEN h ELSE Touch(h, w.cb), w)
  THEN [heap |-> IF w.cb = nullptr THEN h ELSE Touch(h, w.cb), res |-> Empty]
  ELSE SharedPtr_from_weak(h, w)

(* EnableSharedFromThis<T>::shared_from_this, called on object o. *)
shared_from_this(h, o) == lock(h, h.wptr[o])

(* A faulty destroy_object: ~T() runs and the member wptr of the           *)
(* EnableSharedFromThis base is not destroyed with the object.             *)
destroy_object_keeps_wptr(h, b, nd) ==
  [Touch(h, b) EXCEPT !.destroy_calls[b] = Bump(@),
                      !.object[b] = "destroyed"]

(* destroy_object of either block: del(object) with the default deleter,   *)
(* or ObjAllocTraits::destroy, runs ~T(): the destructor's body, which may *)
(* call shared_from_this() when T has it, then ~EnableSharedFromThis,      *)
(* which destroys the member wptr.  dtor_sft keeps what the calls made     *)
(* inside destructors returned so far: "empty" while each returned an      *)
(* empty handle and changed nothing, "bad" otherwise.  A non-empty result  *)
(* is a temporary whose destruction re-enters clear() and destroy_object;  *)
(* the second run of ~T() is counted and not unfolded.                     *)
destroy_object(h, b, nd) ==
  LET h0 == [Touch(h, b) EXCEPT !.destroy_calls[b] = Bump(@)]
      r == shared_from_this(h0, b)
      h1 == IF esft /\ nd.dtorCalls
            THEN IF r.res.cb = nullptr
                 THEN [r.heap EXCEPT !.dtor_sft =
                         IF r.heap = h0 /\ @ # "bad" THEN "empty" ELSE "bad"]
                 ELSE [r.heap EXCEPT !.dtor_sft = "bad",
                                     !.shared_cnt[r.res.cb] = @ - 1,
                                     !.destroy_calls[r.res.cb] = Bump(@)]
            ELSE h0
      h2 == IF esft THEN WeakPtr_clear(h1, h1.wptr[b]) ELSE h1
  IN [h2 EXCEPT !.object[b] = "destroyed", !.wptr[b] = Empty]

(* A faulty SharedPtr::clear: the object is destroyed only when no weak    *)
(* handle is left either.                                                  *)
SharedPtr_clear_destroy_if_unobserved(h, p, nd) ==
  IF p.cb = nullptr THEN h
  ELSE LET b == p.cb
           h1 == [Touch(h, b) EXCEPT !.shared_cnt[b] = @ - 1]
       IN IF h1.shared_cnt[b] = 0 /\ h1.weak_cnt[b] = 0
          THEN deallocate_cb(destroy_object(h1, b, nd), b)
          ELSE h1

(* SharedPtr::clear.  The read of weak_cnt on line 252 follows             *)
(* destroy_object: when that call released the block, the read is of freed *)
(* storage and nd.uafZero is what it compares to.                          *)
SharedPtr_clear(h, p, nd) ==
  IF p.cb = nullptr THEN h
  ELSE LET b == p.cb
           h1 == [Touch(h, b) EXCEPT !.shared_cnt[b] = @ - 1]
       IN IF h1.shared_cnt[b] = 0
          THEN LET h2 == destroy_object(h1, b, nd)
                   h3 == Touch(h2, b)
                   zero == IF h2.block[b] = "freed"
                           THEN nd.uafZero
                           ELSE h2.weak_cnt[b] = 0
               IN IF zero THEN deallocate_cb(h3, b) ELSE h3
          ELSE h1

(* SharedPtr::update_enable_shared_from_this, for a handle holding pair p. *)
(* `wptr = *this` converts *this to a temporary WeakPtr and copy-assigns   *)
(* it: WeakPtr copy(tmp); swap(copy); then copy and the temporary die.     *)
update_enable_shared_from_this(h, p) ==
  IF p.cb = nullptr THEN h
  ELSE IF ~esft THEN h
  ELSE LET o == IF p.object # nullptr THEN p.object ELSE p.cb
           old == h.wptr[o]
           h1 == WeakPtr_copy(h, p)
           h2 == WeakPtr_copy(h1, p)
           h3 == [h2 EXCEPT !.wptr[o] = p]
           h4 == WeakPtr_clear(h3, old)
       IN WeakPtr_clear(h4, p)

(* SharedPtr(T * ptr, del, alloc): update_enable_shared_from_this() runs    *)
(* while cb is still the null of its default member initializer; the block *)
(* is allocated and stored afterwards.                                     *)
SharedPtr_ptr(h, o) ==
  LET h1 == update_enable_shared_from_this(h, [object |-> o, cb |-> nullptr])
  IN [heap |-> NewBlock(h1, o, "regular", 1, 0),
      res |-> [object |-> o, cb |-> o]]

(* A faulty private constructor: the handle's object pointer is set to the *)
(* object embedded in the block.                                           *)
SharedPtr_make_cb_with_object(h, b) ==
  LET p == [object |-> b, cb |-> b]
  IN [heap |-> update_enable_shared_from_this(h, p), res |-> p]

(* The private constructor SharedPtr(MakeSharedControlBlock* make_shared_cb) *)
SharedPtr_make_cb(h, b) ==
  LET p == [object |-> nullptr, cb |-> b]
  IN [heap |-> update_enable_shared_from_this(h, p), res |-> p]

(* makeShared / allocateShared: one block holding the counts (1, 0) and    *)
(* the object, constructed in place with an empty wptr.                    *)
makeShared(h, b) ==
  SharedPtr_make_cb(
    [NewBlock(h, b, "make", 1, 0) EXCEPT !.object[b] = "alive",
                                         !.wptr[b] = Empty], b)

(* A faulty copy constructor: the pair is copied and shared_cnt is not     *)
(* raised.                                                                 *)
SharedPtr_copy_no_increment(h, src) == update_enable_shared_from_this(h, src)

(* SharedPtr(const SharedPtr&) *)
SharedPtr_copy(h, src) ==
  LET h1 == update_enable_shared_from_this(h, src)
  IN IF src.cb # nullptr
     THEN [Touch(h1, src.cb) EXCEPT !.shared_cnt[src.cb] = @ + 1]
     ELSE h1

(* SharedPtr(SharedPtr<Y>&&): the heap; the source is emptied by the caller *)
SharedPtr_move(h, src) == update_enable_shared_from_this(h, src)

(* SharedPtr::use_count of a handle holding p: `return cb->shared_cnt`,    *)
(* with no test of cb.  On an empty handle the read goes through a null    *)
(* pointer: the call may not return, or return whatever the read yields,   *)
(* zero or not.                                                            *)
SharedPtr_use_count(h, p) ==
  IF p.cb = nullptr
  THEN {[val |-> v, null_deref |-> TRUE] : v \in 0..1}
  ELSE {[val |-> h.shared_cnt[p.cb], null_deref |-> FALSE]}

(* SharedPtr::get *)
get(p) == p.object

(* The scenario of six handler calls on one block b: makeShared, a copy of *)
(* the handle, the destruction of a strong handle, a weak handle made from *)
(* the remaining one, the destruction of that strong handle, and of the    *)
(* weak handle.  ScenarioStep gives the stage reached when handler op on   *)
(* block b follows stage sc; any other call leaves the scenario.           *)
ScenarioOps ==
  <<"makeShared", "SharedPtr(const&)", "~SharedPtr", "WeakPtr(SharedPtr)",
    "~SharedPtr", "~WeakPtr">>

ScenarioStep(sc, op, b) ==
  IF sc.stage \in 1..5 /\ b = sc.cb /\ op = ScenarioOps[sc.stage + 1]
  THEN [stage |-> sc.stage + 1, cb |-> b]
  ELSE IF op = ScenarioOps[1] THEN [stage |-> 1, cb |-> b]
  ELSE [stage |-> 0, cb |-> nullptr]

(* What the last handler was: its name, the pair of the handle it          *)
(* constructed or returned (Empty when it made none), the stage of the     *)
(* scenario it completed, the number it returned (0 when it returns none)  *)
(* and whether it read through a null control-block pointer.  b is the     *)
(* control block the handler was about.                                    *)
Rec(op, res, b) ==
  [op |-> op, res |-> res, scen |-> ScenarioStep(last.scen, op, b),
   val |-> 0, null_deref |-> FALSE]

(* No call is in progress on a second thread. *)
NoThreads ==
  [lock |-> [pc |-> "idle", reg |-> 0, w |-> Empty, res |-> Empty],
   dtor |-> [pc |-> "idle", reg |-> 0, s |-> Empty],
   interleaved |-> FALSE]

Init ==
  /\ esft \in BOOLEAN
  /\ heap = InitHeap
  /\ sp = NoHandles
  /\ wp = NoHandles
  /\ last = [op |-> "none", res |-> Empty,
             scen |-> [stage |-> 0, cb |-> nullptr],
             val |-> 0, null_deref |-> FALSE]
  /\ thr = NoThreads

(* The outcomes of SharedPtr::clear over the handler's nondeterministic    *)
(* inputs.                                                                 *)
ClearOutcomes(h, p) == {SharedPtr_clear(h, p, nd) : nd \in Choices}

(* The calling code's `new T`: one allocation, of an object no handle owns *)
(* yet; the wptr of its EnableSharedFromThis base is default-constructed   *)
(* (line 315).                                                             *)
New_T(o) ==
  /\ heap.object[o] = "none" /\ heap.block[o] = "unallocated"
  /\ heap' = [heap EXCEPT !.object[o] = "alive", !.wptr[o] = Empty,
                          !.allocs[o] = @ + 1]
  /\ last' = Rec("new T", Empty, o)
  /\ UNCHANGED <<thr, esft, sp, wp>>

(* SharedPtr() *)
SharedPtr_default ==
  /\ Size(sp) < NumShared
  /\ sp' = Add(sp, Empty)
  /\ last' = Rec("SharedPtr()", Empty, nullptr)
  /\ UNCHANGED <<thr, esft, heap, wp>>

(* SharedPtr<T> s(ptr) for an object of the calling code that no handle    *)
(* owns yet.                                                               *)
SharedPtr_ptr_ctor(o) ==
  /\ Size(sp) < NumShared
  /\ heap.object[o] = "alive" /\ heap.block[o] = "unallocated"
  /\ LET r == SharedPtr_ptr(heap, o)
     IN /\ heap' = r.heap
        /\ sp' = Add(sp, r.res)
        /\ last' = Rec("SharedPtr(ptr)", r.res, r.res.cb)
  /\ UNCHANGED <<thr, esft, wp>>

(* auto s = makeShared<T>(...) *)
makeShared_call(b) ==
  /\ Size(sp) < NumShared
  /\ heap.object[b] = "none" /\ heap.block[b] = "unallocated"
  /\ LET r == makeShared(heap, b)
     IN /\ heap' = r.heap
        /\ sp' = Add(sp, r.res)
        /\ last' = Rec("makeShared", r.res, r.res.cb)
  /\ UNCHANGED <<thr, esft, wp>>

(* SharedPtr<T> s(t), t holding pair p *)
SharedPtr_copy_ctor(p) ==
  /\ Size(sp) < NumShared /\ sp[p] > 0
  /\ heap' = SharedPtr_copy(heap, p)
  /\ sp' = Add(sp, p)
  /\ last' = Rec("SharedPtr(const&)", p, p.cb)
  /\ UNCHANGED <<thr, esft, wp>>

(* SharedPtr<T> s(std::move(t)), t holding pair p: s takes the pair and t  *)
(* is left empty.                                                          *)
SharedPtr_move_ctor(p) ==
  /\ Size(sp) < NumShared /\ sp[p] > 0
  /\ heap' = SharedPtr_move(heap, p)
  /\ sp' = Add(Add(Del(sp, p), p), Empty)
  /\ last' = Rec("SharedPtr(&&)", p, p.cb)
  /\ UNCHANGED <<thr, esft, wp>>

(* s = t for two handles, s holding q and t holding p: SharedPtr           *)
(* copy(shptr); swap(copy); and copy, now holding q, is destroyed.         *)
SharedPtr_copy_assign(q, p) ==
  /\ sp[q] > 0 /\ sp[p] > 0 /\ (p = q => sp[p] > 1)
  /\ heap' \in ClearOutcomes(SharedPtr_copy(heap, p), q)
  /\ sp' = Add(Del(sp, q), p)
  /\ last' = Rec("operator=(const&)", p, p.cb)
  /\ UNCHANGED <<thr, esft, wp>>

(* s = s: this == &shptr, the operator returns at once. *)
SharedPtr_copy_assign_self(p) ==
  /\ sp[p] > 0
  /\ last' = Rec("operator=(const&) self", p, p.cb)
  /\ UNCHANGED <<thr, esft, heap, sp, wp>>

(* s = std::move(t) for two handles, s holding q and t holding p:          *)
(* SharedPtr copy(std::move(shptr)); swap(copy); copy dies holding q and t *)
(* is left empty.                                                          *)
SharedPtr_move_assign(q, p) ==
  /\ sp[q] > 0 /\ sp[p] > 0 /\ (p = q => sp[p] > 1)
  /\ heap' \in ClearOutcomes(SharedPtr_move(heap, p), q)
  /\ sp' = Add(Del(sp, q), Empty)
  /\ last' = Rec("operator=(&&)", p, p.cb)
  /\ UNCHANGED <<thr, esft, wp>>

(* s = std::move(s): there is no self-assignment test; copy takes the      *)
(* pair, s is emptied, the swap gives the pair back and copy dies empty.   *)
SharedPtr_move_assign_self(p) ==
  /\ sp[p] > 0
  /\ heap' \in ClearOutcomes(SharedPtr_move(heap, p), Empty)
  /\ last' = Rec("operator=(&&) self", p, p.cb)
  /\ UNCHANGED <<thr, esft, sp, wp>>

(* ~SharedPtr() of a handle holding p *)
SharedPtr_dtor(p) ==
  /\ sp[p] > 0
  /\ heap' \in ClearOutcomes(heap, p)
  /\ sp' = Del(sp, p)
  /\ last' = Rec("~SharedPtr", Empty, p.cb)
  /\ UNCHANGED <<thr, esft, wp>>

(* A faulty reset(): the handle's two pointers are set to null and the     *)
(* block it held is not released.                                          *)
reset_without_release(p) ==
  /\ sp[p] > 0
  /\ sp' = Add(Del(sp, p), Empty)
  /\ last' = Rec("reset()", Empty, p.cb)
  /\ UNCHANGED <<thr, esft, heap, wp>>

(* s.reset() of a handle holding p: a default-constructed temporary is     *)
(* swapped with s and dies holding p.                                      *)
reset(p) ==
  /\ sp[p] > 0
  /\ heap' \in ClearOutcomes(heap, p)
  /\ sp' = Add(Del(sp, p), Empty)
  /\ last' = Rec("reset()", Empty, p.cb)
  /\ UNCHANGED <<thr, esft, wp>>

(* s.reset(ptr) of a handle holding p: a temporary SharedPtr<T>(ptr, del,  *)
(* alloc) is swapped with s and dies holding p.                            *)
reset_ptr(p, o) ==
  /\ sp[p] > 0
  /\ heap.object[o] = "alive" /\ heap.block[o] = "unallocated"
  /\ LET r == SharedPtr_ptr(heap, o)
     IN /\ heap' \in ClearOutcomes(r.heap, p)
        /\ sp' = Add(Del(sp, p), r.res)
        /\ last' = Rec("reset(ptr)", r.res, p.cb)
  /\ UNCHANGED <<thr, esft, wp>>

(* s.use_count() of a handle holding p *)
SharedPtr_use_count_call(p) ==
  /\ sp[p] > 0
  /\ \E r \in SharedPtr_use_count(heap, p) :
       last' = [Rec("use_count", Empty, p.cb)
                  EXCEPT !.val = r.val, !.null_deref = r.null_deref]
  /\ UNCHANGED <<thr, esft, heap, sp, wp>>

(* s.swap(t), s holding q and t holding p: the two pairs change places. *)
swap(q, p) ==
  /\ sp[q] > 0 /\ sp[p] > 0 /\ (p = q => sp[p] > 1)
  /\ sp' = Add(Add(Del(Del(sp, q), p), p), q)
  /\ last' = Rec("swap", Empty, q.cb)
  /\ UNCHANGED <<thr, esft, heap, wp>>

(* WeakPtr() *)
WeakPtr_default ==
  /\ Size(wp) < NumWeak
  /\ wp' = Add(wp, Empty)
  /\ last' = Rec("WeakPtr()", Empty, nullptr)
  /\ UNCHANGED <<thr, esft, heap, sp>>

(* WeakPtr<T> w(s) for a strong handle s holding p *)
WeakPtr_from_shared(p) ==
  /\ Size(wp) < NumWeak /\ sp[p] > 0
  /\ heap' = WeakPtr_copy(heap, p)
  /\ wp' = Add(wp, p)
  /\ last' = Rec("WeakPtr(SharedPtr)", p, p.cb)
  /\ UNCHANGED <<thr, esft, sp>>

(* WeakPtr<T> w(v), v holding p *)
WeakPtr_copy_ctor(p) ==
  /\ Size(wp) < NumWeak /\ wp[p] > 0
  /\ heap' = WeakPtr_copy(heap, p)
  /\ wp' = Add(wp, p)
  /\ last' = Rec("WeakPtr(const&)", p, p.cb)
  /\ UNCHANGED <<thr, esft, sp>>

(* WeakPtr<T> w(std::move(v)), v holding p *)
WeakPtr_move_ctor(p) ==
  /\ Size(wp) < NumWeak /\ wp[p] > 0
  /\ wp' = Add(Add(Del(wp, p), p), Empty)
  /\ last' = Rec("WeakPtr(&&)", p, p.cb)
  /\ UNCHANGED <<thr, esft, heap, sp>>

(* w = v for two weak handles, w holding q and v holding p: WeakPtr        *)
(* copy(wptr); swap(copy); and copy dies holding q.                        *)
WeakPtr_copy_assign(q, p) ==
  /\ wp[q] > 0 /\ wp[p] > 0 /\ (p = q => wp[p] > 1)
  /\ heap' = WeakPtr_clear(WeakPtr_copy(heap, p), q)
  /\ wp' = Add(Del(wp, q), p)
  /\ last' = Rec("WeakPtr::operator=(const&)", p, p.cb)
  /\ UNCHANGED <<thr, esft, sp>>

(* w = w: this == &wptr, the operator returns at once. *)
WeakPtr_copy_assign_self(p) ==
  /\ wp[p] > 0
  /\ last' = Rec("WeakPtr::operator=(const&) self", p, p.cb)
  /\ UNCHANGED <<thr, esft, heap, sp, wp>>

(* w = std::move(v) for two weak handles: WeakPtr copy(std::move(wptr));   *)
(* swap(copy); copy dies holding q and v is left empty.                    *)
WeakPtr_move_assign(q, p) ==
  /\ wp[q] > 0 /\ wp[p] > 0 /\ (p = q => wp[p] > 1)
  /\ heap' = WeakPtr_clear(heap, q)
  /\ wp' = Add(Del(wp, q), Empty)
  /\ last' = Rec("WeakPtr::operator=(&&)", p, p.cb)
  /\ UNCHANGED <<thr, esft, sp>>

(* w = std::move(w): no self-assignment test; copy takes the pair, w is    *)
(* emptied, the swap gives it back and copy dies empty.                    *)
WeakPtr_move_assign_self(p) ==
  /\ wp[p] > 0
  /\ heap' = WeakPtr_clear(heap, Empty)
  /\ last' = Rec("WeakPtr::operator=(&&) self", p, p.cb)
  /\ UNCHANGED <<thr, esft, sp, wp>>

(* ~WeakPtr() of a weak handle holding p *)
WeakPtr_dtor(p) ==
  /\ wp[p] > 0
  /\ heap' = WeakPtr_clear(heap, p)
  /\ wp' = Del(wp, p)
  /\ last' = Rec("~WeakPtr", Empty, p.cb)
  /\ UNCHANGED <<thr, esft, sp>>

(* SharedPtr<T> s = w.lock(), w holding p *)
WeakPtr_lock(p) ==
  /\ Size(sp) < NumShared /\ wp[p] > 0
  /\ LET r == lock(heap, p)
     IN /\ heap' = r.heap
        /\ sp' = Add(sp, r.res)
        /\ last' = Rec("lock", r.res, p.cb)
  /\ UNCHANGED <<thr, esft, wp>>

(* SharedPtr<T> s = o->shared_from_this(), on a live object of a type that *)
(* has the capability, owned by a handle or not yet.                       *)
shared_from_this_call(o) ==
  /\ esft
  /\ Size(sp) < NumShared /\ heap.object[o] = "alive"
  /\ LET r == shared_from_this(heap, o)
     IN /\ heap' = r.heap
        /\ sp' = Add(sp, r.res)
        /\ last' = Rec("shared_from_this", r.res, o)
  /\ UNCHANGED <<thr, esft, wp>>

Next ==
  \/ \E o \in Blocks : New_T(o)
  \/ SharedPtr_default
  \/ \E o \in Blocks : SharedPtr_ptr_ctor(o)
  \/ \E b \in Blocks : makeShared_call(b)
  \/ \E p \in Pairs : SharedPtr_copy_ctor(p)
  \/ \E p \in Pairs : SharedPtr_move_ctor(p)
  \/ \E q, p \in Pairs : SharedPtr_copy_assign(q, p)
  \/ \E p \in Pairs : SharedPtr_copy_assign_self(p)
  \/ \E q, p \in Pairs : SharedPtr_move_assign(q, p)
  \/ \E p \in Pairs : SharedPtr_move_assign_self(p)
  \/ \E p \in Pairs : SharedPtr_dtor(p)
  \/ \E p \in Pairs : reset(p)
  \/ \E p \in Pairs, o \in Blocks : reset_ptr(p, o)
  \/ \E p \in Pairs : SharedPtr_use_count_call(p)
  \/ \E q, p \in Pairs : swap(q, p)
  \/ WeakPtr_default
  \/ \E p \in Pairs : WeakPtr_from_shared(p)
  \/ \E p \in Pairs : WeakPtr_copy_ctor(p)
  \/ \E p \in Pairs : WeakPtr_move_ctor(p)
  \/ \E q, p \in Pairs : WeakPtr_copy_assign(q, p)
  \/ \E p \in Pairs : WeakPtr_copy_assign_self(p)
  \/ \E q, p \in Pairs : WeakPtr_move_assign(q, p)
  \/ \E p \in Pairs : WeakPtr_move_assign_self(p)
  \/ \E p \in Pairs : WeakPtr_dtor(p)
  \/ \E p \in Pairs : WeakPtr_lock(p)
  \/ \E o \in Blocks : shared_from_this_call(o)

Spec == Init /\ [][Next]_vars

(***************************************************************************)
(* Two threads.  One calls lock() on a weak handle, the other runs the     *)
(* destructor of a strong handle on the same block, with nothing between   *)
(* them: the counters are plain size_t members (lines 16-17), so ++ and -- *)
(* are a load and a store that the other thread's steps can separate, and  *)
(* lock() tests expired() (line 404) before SharedPtr(WeakPtr<T>) raises    *)
(* shared_cnt (line 241).  The outcomes of the unsynchronised accesses are *)
(* the interleavings of these loads and stores.                            *)
(***************************************************************************)

RECURSIVE SharedCopies(_, _, _)
(* The heap after n copy constructions of a strong handle holding p. *)
SharedCopies(h, p, n) ==
  IF n = 0 THEN h ELSE SharedCopies(SharedPtr_copy(h, p), p, n - 1)

RECURSIVE WeakCopies(_, _, _)
(* The heap after n weak handles were constructed from a handle holding p. *)
WeakCopies(h, p, n) ==
  IF n = 0 THEN h ELSE WeakCopies(WeakPtr_copy(h, p), p, n - 1)

(* The state in which the two calls start: one block, made by makeShared   *)
(* or by `new T` and SharedPtr(ptr), with ns strong handles (the first and *)
(* its copies) and nw weak handles made from them.                         *)
ThreadInit ==
  /\ esft \in BOOLEAN
  /\ \E k \in {"regular", "make"}, ns \in 1..NumShared, nw \in 1..NumWeak :
       LET r == IF k = "make"
                THEN makeShared(InitHeap, 1)
                ELSE SharedPtr_ptr([InitHeap EXCEPT !.object[1] = "alive",
                                                    !.allocs[1] = 1], 1)
           p == r.res
       IN /\ heap = WeakCopies(SharedCopies(r.heap, p, ns - 1), p, nw)
          /\ sp = [NoHandles EXCEPT ![p] = ns]
          /\ wp = [NoHandles EXCEPT ![p] = nw]
          /\ thr = [lock |-> [pc |-> "start", reg |-> 0, w |-> p,
                              res |-> Empty],
                    dtor |-> [pc |-> "start", reg |-> 0, s |-> p],
                    interleaved |-> FALSE]
  /\ last = [op |-> "none", res |-> Empty,
             scen |-> [stage |-> 0, cb |-> nullptr],
             val |-> 0, null_deref |-> FALSE]

(* A call is under way: it has taken a step and has not returned. *)
Running(pc) == pc \notin {"idle", "start", "done"}

(* The lock() thread moves to pc with reg in its register; the step is     *)
(* marked as interleaved when the destructor call is under way.            *)
LockTo(pc, reg) ==
  [thr EXCEPT !.lock.pc = pc, !.lock.reg = reg,
              !.interleaved = @ \/ Running(thr.dtor.pc)]

(* The destructor thread moves to pc with reg in its register. *)
DtorTo(pc, reg) ==
  [thr EXCEPT !.dtor.pc = pc, !.dtor.reg = reg,
              !.interleaved = @ \/ Running(thr.lock.pc)]

(* A faulty lock(): no expiry test, the strong handle is always made. *)
Lock_expired_unchecked ==
  /\ thr.lock.pc = "start"
  /\ heap' = Touch(heap, thr.lock.w.cb)
  /\ thr' = LockTo("param_load", heap.shared_cnt[thr.lock.w.cb])
  /\ UNCHANGED <<esft, sp, wp, last>>

(* lock(): if (expired()), the read of cb->shared_cnt in use_count(); an   *)
(* expired handle returns SharedPtr<T>() at once.                          *)
Lock_expired ==
  /\ thr.lock.pc = "start"
  /\ heap' = Touch(heap, thr.lock.w.cb)
  /\ IF heap.shared_cnt[thr.lock.w.cb] = 0
     THEN thr' = [LockTo("done", 0) EXCEPT !.lock.res = Empty]
     ELSE thr' = LockTo("param_load", heap.shared_cnt[thr.lock.w.cb])
  /\ IF heap.shared_cnt[thr.lock.w.cb] = 0
     THEN sp' = Add(sp, Empty)
     ELSE sp' = sp
  /\ UNCHANGED <<esft, wp, last>>

(* The SharedPtr<T> made from this weak handle (line 407) takes it by      *)
(* value: the copy's load of ++cb->weak_cnt (line 333).                    *)
Lock_param_load ==
  /\ thr.lock.pc = "param_load"
  /\ heap' = Touch(heap, thr.lock.w.cb)
  /\ thr' = LockTo("param_store", heap.weak_cnt[thr.lock.w.cb])
  /\ UNCHANGED <<esft, sp, wp, last>>

(* The store of ++cb->weak_cnt (line 333). *)
Lock_param_store ==
  /\ thr.lock.pc = "param_store"
  /\ heap' = [Touch(heap, thr.lock.w.cb)
                EXCEPT !.weak_cnt[thr.lock.w.cb] = thr.lock.reg + 1]
  /\ thr' = LockTo("inc_load", 0)
  /\ UNCHANGED <<esft, sp, wp, last>>

(* The load of ++cb->shared_cnt (line 241). *)
Lock_inc_load ==
  /\ thr.lock.pc = "inc_load"
  /\ heap' = Touch(heap, thr.lock.w.cb)
  /\ thr' = LockTo("inc_store", heap.shared_cnt[thr.lock.w.cb])
  /\ UNCHANGED <<esft, sp, wp, last>>

(* The store of ++cb->shared_cnt (line 241). *)
Lock_inc_store ==
  /\ thr.lock.pc = "inc_store"
  /\ heap' = [Touch(heap, thr.lock.w.cb)
                EXCEPT !.shared_cnt[thr.lock.w.cb] = thr.lock.reg + 1]
  /\ thr' = LockTo("clear_load", 0)
  /\ UNCHANGED <<esft, sp, wp, last>>

(* The parameter dies when the constructor returns: the load of            *)
(* --cb->weak_cnt (line 420).                                              *)
Lock_clear_load ==
  /\ thr.lock.pc = "clear_load"
  /\ heap' = Touch(heap, thr.lock.w.cb)
  /\ thr' = LockTo("clear_store", heap.weak_cnt[thr.lock.w.cb])
  /\ UNCHANGED <<esft, sp, wp, last>>

(* The store of --cb->weak_cnt (line 420). *)
Lock_clear_store ==
  /\ thr.lock.pc = "clear_store"
  /\ heap' = [Touch(heap, thr.lock.w.cb)
                EXCEPT !.weak_cnt[thr.lock.w.cb] = thr.lock.reg - 1]
  /\ thr' = LockTo("clear_test", 0)
  /\ UNCHANGED <<esft, sp, wp, last>>

(* The test of line 421 and the deallocate_cb of line 422; lock() returns  *)
(* the strong handle it made.                                              *)
Lock_clear_test ==
  /\ thr.lock.pc = "clear_test"
  /\ LET b == thr.lock.w.cb
         h == Touch(heap, b)
     IN heap' = IF h.shared_cnt[b] = 0 /\ h.weak_cnt[b] = 0
                THEN deallocate_cb(h, b) ELSE h
  /\ thr' = [LockTo("done", 0) EXCEPT !.lock.res = thr.lock.w]
  /\ sp' = Add(sp, thr.lock.w)
  /\ UNCHANGED <<esft, wp, last>>

(* ~SharedPtr(): clear(), the load of --cb->shared_cnt (line 249). *)
Dtor_load ==
  /\ thr.dtor.pc = "start"
  /\ heap' = Touch(heap, thr.dtor.s.cb)
  /\ thr' = DtorTo("store", heap.shared_cnt[thr.dtor.s.cb])
  /\ UNCHANGED <<esft, sp, wp, last>>

(* The store of --cb->shared_cnt (line 249). *)
Dtor_store ==
  /\ thr.dtor.pc = "store"
  /\ heap' = [Touch(heap, thr.dtor.s.cb)
                EXCEPT !.shared_cnt[thr.dtor.s.cb] = thr.dtor.reg - 1]
  /\ thr' = DtorTo("test", 0)
  /\ UNCHANGED <<esft, sp, wp, last>>

(* if (cb->shared_cnt == 0), line 250; otherwise the destructor returns. *)
Dtor_test ==
  /\ thr.dtor.pc = "test"
  /\ heap' = Touch(heap, thr.dtor.s.cb)
  /\ IF heap.shared_cnt[thr.dtor.s.cb] = 0
     THEN thr' = DtorTo("destroy", 0) /\ sp' = sp
     ELSE thr' = DtorTo("done", 0) /\ sp' = Del(sp, thr.dtor.s)
  /\ UNCHANGED <<esft, wp, last>>

(* cb->destroy_object(), line 251. *)
Dtor_destroy ==
  /\ thr.dtor.pc = "destroy"
  /\ heap' \in {destroy_object(heap, thr.dtor.s.cb, nd) : nd \in Choices}
  /\ thr' = DtorTo("weak_test", 0)
  /\ UNCHANGED <<esft, sp, wp, last>>

(* if (cb->weak_cnt == 0) cb->deallocate_cb(), lines 252-253; the          *)
(* destructor returns.                                                     *)
Dtor_weak_test ==
  /\ thr.dtor.pc = "weak_test"
  /\ \E nd \in Choices :
       LET b == thr.dtor.s.cb
           h == Touch(heap, b)
           zero == IF heap.block[b] = "freed" THEN nd.uafZero
                   ELSE heap.weak_cnt[b] = 0
       IN heap' = IF zero THEN deallocate_cb(h, b) ELSE h
  /\ thr' = DtorTo("done", 0)
  /\ sp' = Del(sp, thr.dtor.s)
  /\ UNCHANGED <<esft, wp, last>>

ThreadNext ==
  \/ Lock_expired
  \/ Lock_param_load
  \/ Lock_param_store
  \/ Lock_inc_load
  \/ Lock_inc_store
  \/ Lock_clear_load
  \/ Lock_clear_store
  \/ Lock_clear_test
  \/ Dtor_load
  \/ Dtor_store
  \/ Dtor_test
  \/ Dtor_destroy
  \/ Dtor_weak_test

ThreadSpec == ThreadInit /\ [][ThreadNext]_vars

(***************************************************************************)
(* The claims.                                                             *)
(***************************************************************************)

(* The weak handle embedded in a self-observing object is live while the   *)
(* object is: the number of such handles that refer to block b.            *)
EmbeddedOn(b) ==
  Cardinality({o \in Blocks :
                 esft /\ heap.object[o] = "alive" /\ heap.wptr[o].cb = b})

(* C1: for every control block that has not been deallocated, shared_cnt   *)
(* equals the number of live strong handles whose block pointer is the     *)
(* block, after any sequence of operations.                                *)
C1_SharedCountIsHandleCount ==
  \A b \in Blocks :
    heap.block[b] # "freed" => heap.shared_cnt[b] = HandlesOn(sp, b)

(* C1 witness: a live block shared by two strong handles, one of them made *)
(* by the copy constructor.                                                *)
C1_Witness ==
  \E b \in Blocks :
    /\ heap.block[b] = "live" /\ heap.shared_cnt[b] = 2
    /\ HandlesOn(sp, b) = 2
    /\ last.op = "SharedPtr(const&)" /\ last.res.cb = b

(* C2: destroy_object runs at most once per block, and has run exactly     *)
(* when the block's shared_cnt has come down to 0, whether weak handles to *)
(* the block remain or not: it runs in the step that takes shared_cnt from *)
(* 1 to 0 and in no other.                                                 *)
C2_DestroyOnceAtZero ==
  \A b \in Blocks :
    /\ heap.destroy_calls[b] <= 1
    /\ heap.destroy_calls[b] = 1
         <=> (heap.block[b] # "unallocated" /\ heap.shared_cnt[b] = 0)

(* C2 witness: the object was destroyed once while a weak handle to its    *)
(* block is still alive.                                                   *)
C2_Witness ==
  \E b \in Blocks :
    /\ heap.destroy_calls[b] = 1 /\ heap.block[b] = "live"
    /\ HandlesOn(wp, b) > 0 /\ HandlesOn(sp, b) = 0
    /\ last.op \in {"~SharedPtr", "reset()", "operator=(const&)"}

(* C3: deallocate_cb is called at most once per block, self-observing      *)
(* objects included, and only when both counts are 0.                      *)
C3_DeallocateOnce ==
  \A b \in Blocks :
    /\ heap.dealloc_calls[b] <= 1
    /\ heap.dealloc_calls[b] >= 1 => heap.dealloc_counts[b] = <<0, 0>>

(* C4: no handler reads or writes the counts of, or calls destroy_object   *)
(* or deallocate_cb on, a block that was already deallocated.              *)
C4_NoAccessAfterDeallocate == \A b \in Blocks : ~heap.uaf[b]

(* C5: for every control block that has not been deallocated, weak_cnt     *)
(* equals the number of live weak handles whose block pointer is the       *)
(* block, the one embedded in a live self-observing object included;       *)
(* strong handles add nothing.                                             *)
C5_WeakCountIsHandleCount ==
  \A b \in Blocks :
    heap.block[b] # "freed"
      => heap.weak_cnt[b] = HandlesOn(wp, b) + EmbeddedOn(b)

(* C5 witness: a block with two strong handles, one weak handle of the     *)
(* calling code and the embedded weak handle of its object.                *)
C5_Witness ==
  \E b \in Blocks :
    /\ heap.block[b] = "live" /\ heap.weak_cnt[b] = 2
    /\ HandlesOn(wp, b) = 1 /\ EmbeddedOn(b) = 1 /\ HandlesOn(sp, b) = 2

(* C6: lock() on a weak handle whose block has shared_cnt > 0 returns a    *)
(* non-empty strong handle with the weak handle's control block, and the   *)
(* call raises the block's shared_cnt by exactly one and leaves its        *)
(* weak_cnt as it was.                                                     *)
C6_LockLive ==
  [][\A p \in Pairs :
       (WeakPtr_lock(p) /\ p.cb # nullptr /\ heap.shared_cnt[p.cb] > 0)
         => /\ last'.res.cb = p.cb
            /\ sp'[last'.res] = sp[last'.res] + 1
            /\ heap'.shared_cnt[p.cb] = heap.shared_cnt[p.cb] + 1
            /\ heap'.weak_cnt[p.cb] = heap.weak_cnt[p.cb]]_vars

(* C6 witness: lock() has just returned a non-empty handle. *)
C6_Witness ==
  /\ last.op = "lock" /\ last.res.cb # nullptr
  /\ sp[last.res] > 0 /\ wp[last.res] > 0
  /\ heap.shared_cnt[last.res.cb] = 2

(* C7: lock() on an expired weak handle, empty or with a block whose       *)
(* shared_cnt is 0, returns an empty strong handle and changes neither     *)
(* count, nor anything else in memory.                                     *)
C7_LockExpired ==
  [][\A p \in Pairs :
       (WeakPtr_lock(p) /\ (p.cb = nullptr \/ heap.shared_cnt[p.cb] = 0))
         => /\ last'.res = Empty
            /\ sp'[Empty] = sp[Empty] + 1
            /\ heap' = heap]_vars

(* C7 witness: lock() has just returned an empty handle while every weak   *)
(* handle alive refers to a block whose object is destroyed.               *)
C7_Witness ==
  /\ last.op = "lock" /\ last.res = Empty
  /\ wp[Empty] = 0
  /\ \E p \in Pairs :
       wp[p] > 0 /\ heap.block[p.cb] = "live" /\ heap.shared_cnt[p.cb] = 0

(* C8: right after a strong handle is constructed that owns a              *)
(* self-observing object, from a raw pointer or by makeShared, the         *)
(* object's wptr refers to the handle's control block, and                 *)
(* shared_from_this() returns a non-empty handle on that block and raises  *)
(* shared_cnt by one.                                                      *)
C8_SelfObservationAfterConstruction ==
  (esft /\ last.op \in {"SharedPtr(ptr)", "makeShared"})
    => LET b == last.res.cb
           r == shared_from_this(heap, b)
       IN /\ heap.wptr[b].cb = b
          /\ r.res.cb = b
          /\ r.heap.shared_cnt[b] = heap.shared_cnt[b] + 1

(* C9: shared_from_this() returns an empty handle and changes no count     *)
(* when no strong handle has taken ownership of the object yet, and when   *)
(* it is called from the object's destructor, shared_cnt being 0 already.  *)
C9_SharedFromThisEmpty ==
  /\ [](heap.dtor_sft # "bad")
  /\ [][\A o \in Blocks :
          (shared_from_this_call(o) /\ heap.block[o] = "unallocated")
            => /\ last'.res = Empty
               /\ sp'[Empty] = sp[Empty] + 1
               /\ heap' = heap]_vars

(* C9 witness: a destructor has called shared_from_this() and got an empty *)
(* handle, and the last call was on an object no strong handle owns.       *)
C9_Witness ==
  /\ heap.dtor_sft = "empty"
  /\ last.op = "shared_from_this" /\ last.res = Empty
  /\ \A o \in Blocks : heap.object[o] = "alive" => heap.block[o] = "unallocated"
  /\ \E o \in Blocks : heap.object[o] = "alive"

(* The counts (shared_cnt, weak_cnt) after each stage of the scenario. *)
ScenarioCounts == <<<<1, 0>>, <<2, 0>>, <<1, 0>>, <<1, 1>>, <<0, 1>>, <<0, 0>>>>

(* C10: once the last strong handle is gone while a weak handle of the     *)
(* calling code is alive, the object is destroyed and the block is not     *)
(* deallocated; every weak handle to the block reports expired(); the      *)
(* block is deallocated when no such weak handle is left.  The scenario    *)
(* makeShared A; copy B; destroy A; weak W from B; destroy B; destroy W    *)
(* passes through the counts (1,0) (2,0) (1,0) (1,1) (0,1) (0,0), with the *)
(* object destroyed and the block live after destroy B and the block       *)
(* released after destroy W.  (The weak handle embedded in a self-         *)
(* observing object is one more in weak_cnt while the object is alive.)    *)
C10_WeakOutlivesStrong ==
  /\ \A b \in Blocks :
       (heap.destroy_calls[b] >= 1 /\ HandlesOn(wp, b) > 0)
         => /\ heap.object[b] = "destroyed"
            /\ heap.block[b] = "live" /\ heap.dealloc_calls[b] = 0
            /\ \A p \in Pairs : (p.cb = b /\ wp[p] > 0) => expired(heap, p)
  /\ \A b \in Blocks :
       (heap.destroy_calls[b] >= 1 /\ HandlesOn(wp, b) = 0)
         => heap.block[b] = "freed"
  /\ last.scen.stage >= 1
       => LET b == last.scen.cb
              k == last.scen.stage
          IN /\ heap.shared_cnt[b] = ScenarioCounts[k][1]
             /\ heap.weak_cnt[b] = ScenarioCounts[k][2] + EmbeddedOn(b)
             /\ k <= 4 => (heap.object[b] = "alive" /\ heap.block[b] = "live")
             /\ k = 5 => /\ heap.object[b] = "destroyed"
                         /\ heap.destroy_calls[b] = 1
                         /\ heap.block[b] = "live"
                         /\ EmbeddedOn(b) = 0
             /\ k = 6 => /\ heap.block[b] = "freed"
                         /\ heap.dealloc_calls[b] = 1
                         /\ heap.dealloc_counts[b] = <<0, 0>>

(* C10 witness: the scenario has run to its end for a type without the     *)
(* self-observation capability.                                            *)
C10_Witness == ~esft /\ last.scen.stage = 6 /\ last.op = "~WeakPtr"

(* C11: move construction and move assignment of a strong handle from a    *)
(* non-empty source holding pair p give the destination p, leave the       *)
(* source empty and leave shared_cnt and weak_cnt of p's block as they     *)
(* were, for every owned type.  (In a move assignment the destination's    *)
(* previous pair q is released; the counts of p's block are compared when  *)
(* q is on another block or empty.)                                        *)
C11_MoveTransfers ==
  [][/\ \A p \in Pairs :
          (SharedPtr_move_ctor(p) /\ p.cb # nullptr)
            => /\ last'.res = p
               /\ sp' = Add(sp, Empty)
               /\ heap'.shared_cnt[p.cb] = heap.shared_cnt[p.cb]
               /\ heap'.weak_cnt[p.cb] = heap.weak_cnt[p.cb]
     /\ \A q, p \in Pairs :
          (SharedPtr_move_assign(q, p) /\ p.cb # nullptr /\ q.cb # p.cb)
            => /\ last'.res = p
               /\ sp' = Add(Del(sp, q), Empty)
               /\ heap'.shared_cnt[p.cb] = heap.shared_cnt[p.cb]
               /\ heap'.weak_cnt[p.cb] = heap.weak_cnt[p.cb]]_vars

(* C12: use_count() on a strong handle returns the shared_cnt of the       *)
(* handle's block, and returns 0 for an empty strong handle, without       *)
(* reading through a null pointer.                                         *)
C12_UseCount ==
  [][\A p \in Pairs :
       SharedPtr_use_count_call(p)
         => /\ ~last'.null_deref
            /\ last'.val = IF p.cb = nullptr THEN 0
                           ELSE heap.shared_cnt[p.cb]]_vars

ReleasesOne(b) ==
  /\ heap'.shared_cnt[b] = heap.shared_cnt[b] - 1
  /\ heap.shared_cnt[b] > 1
       => /\ heap'.weak_cnt[b] = heap.weak_cnt[b]
          /\ heap'.object[b] = heap.object[b]
          /\ heap'.block[b] = heap.block[b]
          /\ heap'.destroy_calls[b] = heap.destroy_calls[b]
          /\ heap'.dealloc_calls[b] = heap.dealloc_calls[b]
  /\ heap.shared_cnt[b] = 1
       => /\ heap'.object[b] = "destroyed"
          /\ heap'.destroy_calls[b] = heap.destroy_calls[b] + 1
          /\ heap'.dealloc_calls[b] >= 1 <=> HandlesOn(wp, b) = 0
          /\ heap'.block[b] = "freed" <=> HandlesOn(wp, b) = 0

(* C14: reset() on a strong handle holding p does to p's block what the    *)
(* destruction of the handle does and leaves the handle empty; reset(ptr)  *)
(* does the same to p's block and leaves the handle owning ptr through a   *)
(* fresh block with the counts (1, 0).                                     *)
C14_ResetReleases ==
  [][/\ \A p \in Pairs :
          reset(p)
            => /\ sp' = Add(Del(sp, p), Empty)
               /\ heap' \in ClearOutcomes(heap, p)
               /\ p.cb = nullptr => heap' = heap
               /\ p.cb # nullptr => ReleasesOne(p.cb)
     /\ \A p \in Pairs, o \in Blocks :
          reset_ptr(p, o)
            => /\ sp' = Add(Del(sp, p), [object |-> o, cb |-> o])
               /\ last'.res = [object |-> o, cb |-> o]
               /\ p.cb # nullptr => ReleasesOne(p.cb)
               /\ heap.block[o] = "unallocated" /\ heap'.block[o] = "live"
               /\ heap'.kind[o] = "regular"
               /\ heap'.shared_cnt[o] = 1 /\ heap'.weak_cnt[o] = 0
               /\ heap'.object[o] = "alive"]_vars

(* C14 witness: reset(ptr) has left the only strong handle on a fresh      *)
(* block with the counts (1, 0), the other block having been destroyed     *)
(* and released, and no weak handle is alive.                              *)
C14_Witness ==
  /\ last.op = "reset(ptr)" /\ last.res.cb # nullptr
  /\ Size(sp) = 1 /\ sp[last.res] = 1 /\ Size(wp) = 0
  /\ heap.shared_cnt[last.res.cb] = 1 /\ heap.weak_cnt[last.res.cb] = 0
  /\ \E b \in Blocks :
       /\ heap.block[b] = "freed" /\ heap.destroy_calls[b] = 1
       /\ heap.dealloc_calls[b] = 1

(* C15: a handle made by makeShared / allocateShared takes one allocation  *)
(* for the object and the control block together, and that storage is      *)
(* released by one deallocation, never more; the raw-pointer path takes    *)
(* two allocations, the calling code's for the object and the handle's for *)
(* the control block.                                                      *)
C15_AllocationEvents ==
  \A b \in Blocks :
    /\ heap.kind[b] = "make"
         => /\ heap.allocs[b] = 1
            /\ heap.dealloc_calls[b] <= 1
            /\ heap.block[b] = "freed" => heap.dealloc_calls[b] = 1
    /\ heap.kind[b] = "regular" => heap.allocs[b] = 2

(* The weak-handle operations other than lock(). *)
WeakHandleOp ==
  \/ WeakPtr_default
  \/ \E p \in Pairs : WeakPtr_from_shared(p)
  \/ \E p \in Pairs : WeakPtr_copy_ctor(p)
  \/ \E p \in Pairs : WeakPtr_move_ctor(p)
  \/ \E q, p \in Pairs : WeakPtr_copy_assign(q, p)
  \/ \E p \in Pairs : WeakPtr_copy_assign_self(p)
  \/ \E q, p \in Pairs : WeakPtr_move_assign(q, p)
  \/ \E p \in Pairs : WeakPtr_move_assign_self(p)
  \/ \E p \in Pairs : WeakPtr_dtor(p)

(* C16: constructing a weak handle from a strong or a weak handle,         *)
(* copying, moving, assigning and destroying weak handles leave the        *)
(* shared_cnt of every block as it was, never call destroy_object and      *)
(* leave every object and every strong handle as it was.                   *)
C16_WeakOpsLeaveSharedCount ==
  [][WeakHandleOp
       => /\ heap'.shared_cnt = heap.shared_cnt
          /\ heap'.destroy_calls = heap.destroy_calls
          /\ heap'.object = heap.object
          /\ sp' = sp]_vars

(* C16 witness: a weak handle was just destroyed; one block is released    *)
(* and has no weak handle left, the other is still shared by two strong    *)
(* handles and observed by a weak handle.                                  *)
C16_Witness ==
  /\ last.op = "~WeakPtr"
  /\ \E b, c \in Blocks :
       /\ heap.block[b] = "live" /\ heap.shared_cnt[b] = 2
       /\ heap.object[b] = "alive" /\ HandlesOn(wp, b) = 1
       /\ heap.block[c] = "freed" /\ HandlesOn(wp, c) = 0

(* C17: the counters are updated by separate loads and stores and lock()   *)
(* tests expiry and raises shared_cnt in separate steps, so the handles    *)
(* are not thread-safe: with lock() on one thread and the destruction of   *)
(* the last strong handle on another, lock() can return a non-empty strong *)
(* handle to an object on which destroy_object has already run (the        *)
(* witness), and it does so only when steps of the two calls interleave,   *)
(* never when one call runs after the other.                               *)
C17_StaleHandleOnlyInterleaved ==
  (/\ thr.lock.pc = "done"
   /\ thr.lock.res.cb # nullptr
   /\ heap.destroy_calls[thr.lock.res.cb] >= 1)
    => thr.interleaved

(* C17 witness: both calls have returned; lock() returned a non-empty      *)
(* handle on the block whose object the other thread destroyed.            *)
C17_Witness ==
  /\ thr.lock.pc = "done" /\ thr.dtor.pc = "done"
  /\ thr.lock.res.cb # nullptr /\ sp[thr.lock.res] > 0
  /\ heap.destroy_calls[thr.lock.res.cb] >= 1
  /\ heap.object[thr.lock.res.cb] = "destroyed"

(* C18: in single-threaded use, once the shared_cnt of a block has reached *)
(* 0 it stays 0, and no strong handle, whether made by a copy, by lock()   *)
(* or by shared_from_this(), refers to a block whose object has been       *)
(* destroyed.                                                              *)
C18_NoResurrection ==
  /\ [](\A p \in Pairs :
          (sp[p] > 0 /\ p.cb # nullptr)
            => /\ heap.shared_cnt[p.cb] > 0
               /\ heap.destroy_calls[p.cb] = 0
               /\ heap.object[p.cb] = "alive")
  /\ [][\A b \in Blocks :
          (heap.block[b] # "unallocated" /\ heap.shared_cnt[b] = 0)
            => heap'.shared_cnt[b] = 0]_vars

(* C18 witness: the object of a block is destroyed, two weak handles       *)
(* (one a copy of the other) still refer to the block, and lock() has just *)
(* returned an empty handle.                                               *)
C18_Witness ==
  /\ last.op = "lock" /\ last.res = Empty /\ sp[Empty] > 0
  /\ \E p \in Pairs :
       /\ p.cb # nullptr /\ wp[p] = 2 /\ Size(wp) = 2
       /\ heap.block[p.cb] = "live" /\ heap.shared_cnt[p.cb] = 0
       /\ heap.object[p.cb] = "destroyed"

(* C19: whenever no strong and no weak handle of the calling code refers   *)
(* to an allocated block any more, the block's object has been destroyed   *)
(* and the block's storage has been deallocated, for either kind of block  *)
(* and for self-observing objects, whose embedded weak handle goes with    *)
(* the object.                                                             *)
C19_NoLeak ==
  \A b \in Blocks :
    (/\ heap.block[b] # "unallocated"
     /\ HandlesOn(sp, b) = 0 /\ HandlesOn(wp, b) = 0)
      => /\ heap.object[b] = "destroyed" /\ heap.destroy_calls[b] >= 1
         /\ heap.block[b] = "freed" /\ heap.dealloc_calls[b] >= 1
         /\ heap.wptr[b] = Empty

(* C19 witness: a self-observing object made by makeShared was destroyed   *)
(* while a weak handle of the calling code was alive, and the destruction  *)
(* of the last weak handle released the block: no handle is left.          *)
C19_Witness ==
  /\ esft /\ last.op = "~WeakPtr"
  /\ Size(sp) = 0 /\ Size(wp) = 0
  /\ \E b \in Blocks :
       /\ heap.kind[b] = "make" /\ heap.object[b] = "destroyed"
       /\ heap.block[b] = "freed" /\ heap.dealloc_calls[b] = 1
       /\ ~heap.uaf[b]

(* C20: copy-assigning or move-assigning a strong handle to itself, and    *)
(* copy-assigning or move-assigning a weak handle to itself, leave the     *)
(* handle's pair and the shared_cnt and weak_cnt of its block as they      *)
(* were and call neither destroy_object nor deallocate_cb.                 *)
C20_SelfAssignmentNoOp ==
  [][(\/ \E p \in Pairs : SharedPtr_copy_assign_self(p)
      \/ \E p \in Pairs : SharedPtr_move_assign_self(p)
      \/ \E p \in Pairs : WeakPtr_copy_assign_self(p)
      \/ \E p \in Pairs : WeakPtr_move_assign_self(p))
       => /\ sp' = sp /\ wp' = wp
          /\ heap'.shared_cnt = heap.shared_cnt
          /\ heap'.weak_cnt = heap.weak_cnt
          /\ heap'.destroy_calls = heap.destroy_calls
          /\ heap'.dealloc_calls = heap.dealloc_calls]_vars

====
